---- MODULE Spec2Model ----
(***************************************************************************)
(* Reactor / Active-Object bridge of grpc_reactor_routeguide.              *)
(*                                                                         *)
(* The model follows src/client/reactor_client.h (ProxyUnaryReactor and    *)
(* ProxyReadReactor) statement by statement, because the reactor's fields  *)
(* are shared between a transport (gRPC) thread and the application        *)
(* thread, and src/applications/reactor/route_guide_active_reactor_client  *)
(* .cpp (RouteGuideClient: the registry reactor_map_, the admission check  *)
(* of GetFeature/ListFeatures, the four event handlers).                   *)
(*                                                                         *)
(* The transport is the external RPC channel.  It is modelled by what the  *)
(* reactor code relies on: a read requested with StartRead completes with  *)
(* OnReadDone(ok), reactions of one call are delivered one at a time, and  *)
(* OnDone is delivered once the call has finished and no read, hold or     *)
(* reaction is outstanding.                                                *)
(***************************************************************************)
EXTENDS Integers, Sequences, FiniteSets, TLC

\* ------------------------------------------------------------------ bounds
\* Number of GetFeature/ListFeatures call attempts made by the application.
MaxAttempts == 3
\* Largest number of items the server sends on one stream.
MaxItems == 2
\* Number of TryCancel calls the application makes on one reactor.
MaxCancels == 2

\* Number of notes the client writes on one RouteChat stream.
MaxNotes == 3

\* --------------------------------------------------------------- constants
Keys == {"GetFeature", "ListFeatures"}
Ids == 1..MaxAttempts
NoReactor == 0
\* grpc::Status codes that occur; a default-constructed grpc::Status is OK.
StatusCodes == {"OK", "CANCELLED", "INTERNAL"}
DefaultStatus == "OK"
\* A default-constructed ResponseT; the k-th item of a stream is k.
EmptyResponse == 0
\* What the callbacks given to a reactor do:
\*   "app"    the callbacks of RouteGuideClient: TriggerEvent, ok returns true
\*   "hold"   ok returns true and enqueues nothing
\*   "nohold" ok returns false (or is not set)
\*   "plain"  a unary reactor's done callback that enqueues nothing
\*   "bare"   no callback is set (the slots of the callbacks struct are empty)
CbModes == {"app", "hold", "nohold", "plain", "bare"}
\* if (cbs_.ok ...), if (cbs_.nok), if (cbs_.done): whether the slot is set.
CallbackSet(mode) == mode # "bare"

kGetFeatureOnDone == "GetFeatureOnDone"
kListFeaturesOnReadDoneOk == "ListFeaturesOnReadDoneOk"
kListFeaturesOnReadDoneNOk == "ListFeaturesOnReadDoneNOk"
kListFeaturesOnDone == "ListFeaturesOnDone"

VARIABLES
  reactor_map_,  \* RouteGuideClient::reactor_map_: key -> reactor or NoReactor
  rx,            \* the reactor objects: fields of ProxyUnaryReactor/ProxyReadReactor
  tx,            \* the transport's side of each call
  queue,         \* EventLoop's queue of events <<name, reactor>>
  app,           \* the application (consumer) thread
  attempts,      \* call attempts made so far
  outcome,       \* per attempt: its key, what GetFeature/ListFeatures did with
                 \* it, what the call returned to its caller and what it logged
  gh             \* history counters of each reactor (observation only)

vars == <<reactor_map_, rx, tx, queue, app, attempts, outcome, gh>>

\* ------------------------------------------------------------ initial state
NewReactor ==
  [life |-> "none", key |-> "-", cbs |-> "app",
   response_ |-> EmptyResponse, response_ready_ |-> FALSE,
   read_no_more_ |-> FALSE, status_ |-> DefaultStatus]

\* reads: StartRead requests not yet completed; holds: AddHold minus RemoveHold;
\* fin: the call's final status once the transport knows it; srvLeft: items the
\* server still sends; sent: items delivered; done: OnDone was delivered;
\* cancel: TryCancel was requested; pc/ok/st: the reaction the transport thread
\* is executing on this reactor.
NewCall ==
  [reads |-> 0, holds |-> 0, fin |-> "none", srvLeft |-> 0, sent |-> 0,
   done |-> FALSE, cancel |-> FALSE, pc |-> "idle", ok |-> FALSE, st |-> "OK"]

NewHistory ==
  [addHold |-> 0, removeHold |-> 0, resume |-> 0, taken |-> 0, getReturned |-> 0,
   readsAfterNoMore |-> 0, okCb |-> 0, nokCb |-> 0, doneCb |-> 0,
   handled |-> "none", cancels |-> 0]

NoAttempt == [key |-> "-", res |-> "none", ret |-> "none", log |-> "none"]

\* pc: the statement the application thread is at; r, response: the reactor and
\* the out argument of the GetResponse call it is in (or last made); ret: what
\* that call returned.
AppIdle == [pc |-> "idle", r |-> NoReactor, response |-> EmptyResponse, ret |-> "none"]

Init ==
  /\ reactor_map_ = [k \in Keys |-> NoReactor]
  /\ rx = [r \in Ids |-> NewReactor]
  /\ tx = [r \in Ids |-> NewCall]
  /\ queue = <<>>
  /\ app = AppIdle
  /\ attempts = 0
  /\ outcome = [i \in Ids |-> NoAttempt]
  /\ gh = [r \in Ids |-> NewHistory]

IsStream(r) == rx[r].key = "ListFeatures"
IsUnary(r) == rx[r].key = "GetFeature"

\* (mutation of TriggerEvent: the event is put at the head of the queue)
TriggerEvent_Front(q, name, r) == <<[name |-> name, reactor |-> r]>> \o q

\* EventLoop::TriggerEvent(name, reactor): thread-safe enqueue at the tail.
TriggerEvent(q, name, r) == Append(q, [name |-> name, reactor |-> r])

\* ------------------------------------------------- the transport's interface
\* grpc::ClientReadReactor::StartRead, AddHold and RemoveHold, as the reactor
\* calls them: each only moves the call's count of outstanding operations.
StartRead(t) == [t EXCEPT !.reads = @ + 1]
AddHold(t) == [t EXCEPT !.holds = @ + 1]
RemoveHold(t) == [t EXCEPT !.holds = @ - 1]
TransportOp(op, t) ==
  IF op = "StartRead" THEN StartRead(t)
  ELSE IF op = "AddHold" THEN AddHold(t)
  ELSE RemoveHold(t)

\* Operations that keep the call open: reads, holds and the running reaction.
Outstanding(t) == t.reads + t.holds + (IF t.pc # "idle" THEN 1 ELSE 0)

\* History of the transport operations a reactor issued.
Count(h, op, noMore) ==
  IF op = "AddHold" THEN [h EXCEPT !.addHold = @ + 1]
  ELSE IF op = "RemoveHold" THEN [h EXCEPT !.removeHold = @ + 1]
  ELSE [h EXCEPT !.readsAfterNoMore = @ + (IF noMore THEN 1 ELSE 0)]

\* ------------------------------------------------ transport: delivering events
\* A requested read completes.  With an item available the transport writes it
\* into response_ and calls OnReadDone(true); after the call finished it calls
\* OnReadDone(false).
ReadCompletes(r) ==
  /\ rx[r].life = "live" /\ IsStream(r)
  /\ tx[r].pc = "idle" /\ tx[r].reads > 0 /\ ~tx[r].done
  /\ \/ /\ tx[r].fin = "none" /\ tx[r].srvLeft > 0
        /\ tx' = [tx EXCEPT ![r].reads = @ - 1, ![r].srvLeft = @ - 1,
                            ![r].sent = @ + 1, ![r].pc = "OnReadDone_232",
                            ![r].ok = TRUE]
        /\ rx' = [rx EXCEPT ![r].response_ = tx[r].sent + 1]
     \/ /\ tx[r].fin # "none"
        /\ tx' = [tx EXCEPT ![r].reads = @ - 1, ![r].pc = "OnReadDone_232",
                            ![r].ok = FALSE]
        /\ rx' = rx
  /\ UNCHANGED <<reactor_map_, queue, app, attempts, outcome, gh>>

\* The statuses a call can end with: OK when the server has sent all it meant
\* to send (at most MaxItems items), an error at any time, CANCELLED once
\* TryCancel was requested.
FinalStatuses(t) ==
  {"OK", "INTERNAL"} \cup (IF t.cancel THEN {"CANCELLED"} ELSE {})

\* The stream finishes at the transport (trailing status received, or failure).
StreamFinishes(r) ==
  /\ rx[r].life = "live" /\ IsStream(r) /\ tx[r].fin = "none"
  /\ \E s \in FinalStatuses(tx[r]) :
       tx' = [tx EXCEPT ![r].fin = s, ![r].srvLeft = 0]
  /\ UNCHANGED <<reactor_map_, rx, queue, app, attempts, outcome, gh>>

\* (mutation of StreamOnDone: OnDone is delivered while reads or holds are
\* outstanding)
StreamOnDone_Early(r) ==
  /\ rx[r].life = "live" /\ IsStream(r)
  /\ tx[r].fin # "none" /\ ~tx[r].done /\ tx[r].pc = "idle"
  /\ tx' = [tx EXCEPT ![r].done = TRUE, ![r].pc = "OnDone_268", ![r].st = tx[r].fin]
  /\ UNCHANGED <<reactor_map_, rx, queue, app, attempts, outcome, gh>>

\* The transport calls OnDone on a stream reactor.
StreamOnDone(r) ==
  /\ rx[r].life = "live" /\ IsStream(r)
  /\ tx[r].fin # "none" /\ ~tx[r].done /\ Outstanding(tx[r]) = 0
  /\ tx' = [tx EXCEPT ![r].done = TRUE, ![r].pc = "OnDone_268", ![r].st = tx[r].fin]
  /\ UNCHANGED <<reactor_map_, rx, queue, app, attempts, outcome, gh>>

\* The unary call finishes: the response, if any, is in response_ and the
\* transport calls OnDone.
UnaryOnDone(r) ==
  /\ rx[r].life = "live" /\ IsUnary(r)
  /\ ~tx[r].done /\ tx[r].pc = "idle"
  /\ \E s \in FinalStatuses(tx[r]) :
       /\ tx' = [tx EXCEPT ![r].done = TRUE, ![r].fin = s, ![r].pc = "OnDone_109",
                           ![r].st = s]
       /\ rx' = [rx EXCEPT ![r].response_ = IF s = "OK" THEN 1 ELSE @]
  /\ UNCHANGED <<reactor_map_, queue, app, attempts, outcome, gh>>

\* ------------------------------------- ProxyReadReactor::OnReadDone, by line
\* (mutation of OnReadDone_232: the reaction ignores ok and treats every
\* completed read as an item)
OnReadDone_232_IgnoresOk(r) ==
  /\ tx[r].pc = "OnReadDone_232"
  /\ rx' = [rx EXCEPT ![r].response_ready_ = TRUE]
  /\ tx' = [tx EXCEPT ![r].pc = "OnReadDone_240"]
  /\ UNCHANGED <<reactor_map_, queue, app, attempts, outcome, gh>>

\* response_ready_ = ok;
OnReadDone_232(r) ==
  /\ tx[r].pc = "OnReadDone_232"
  /\ rx' = [rx EXCEPT ![r].response_ready_ = tx[r].ok]
  /\ tx' = [tx EXCEPT ![r].pc = IF tx[r].ok THEN "OnReadDone_240" ELSE "OnReadDone_234"]
  /\ UNCHANGED <<reactor_map_, queue, app, attempts, outcome, gh>>

\* read_no_more_ = true;
OnReadDone_234(r) ==
  /\ tx[r].pc = "OnReadDone_234"
  /\ rx' = [rx EXCEPT ![r].read_no_more_ = TRUE]
  /\ tx' = [tx EXCEPT ![r].pc = "OnReadDone_236"]
  /\ UNCHANGED <<reactor_map_, queue, app, attempts, outcome, gh>>

\* (mutation of OnReadDone_236: another read is requested after the nok callback)
OnReadDone_236_ReadsAgain(r) ==
  /\ tx[r].pc = "OnReadDone_236"
  /\ queue' = IF rx[r].cbs = "app"
              THEN TriggerEvent(queue, kListFeaturesOnReadDoneNOk, r) ELSE queue
  /\ gh' = [gh EXCEPT ![r].nokCb = @ + (IF CallbackSet(rx[r].cbs) THEN 1 ELSE 0)]
  /\ tx' = [tx EXCEPT ![r] = [StartRead(@) EXCEPT !.pc = "idle"]]
  /\ UNCHANGED <<reactor_map_, rx, app, attempts, outcome>>

\* if (cbs_.nok) cbs_.nok(this); return;
OnReadDone_236(r) ==
  /\ tx[r].pc = "OnReadDone_236"
  /\ queue' = IF rx[r].cbs = "app"
              THEN TriggerEvent(queue, kListFeaturesOnReadDoneNOk, r) ELSE queue
  /\ gh' = [gh EXCEPT ![r].nokCb = @ + (IF CallbackSet(rx[r].cbs) THEN 1 ELSE 0)]
  /\ tx' = [tx EXCEPT ![r].pc = "idle"]
  /\ UNCHANGED <<reactor_map_, rx, app, attempts, outcome>>

\* What cbs_.ok returns: hold (true) or not.
OkCallbackHolds(mode) == mode \in {"app", "hold"}

\* (mutation of OnReadDone_240: the ok callback enqueues the item's event twice)
OnReadDone_240_Twice(r) ==
  /\ tx[r].pc = "OnReadDone_240"
  /\ queue' = IF rx[r].cbs = "app"
              THEN TriggerEvent(TriggerEvent(queue, kListFeaturesOnReadDoneOk, r),
                                kListFeaturesOnReadDoneOk, r)
              ELSE queue
  /\ gh' = [gh EXCEPT ![r].okCb = @ + (IF CallbackSet(rx[r].cbs) THEN 1 ELSE 0)]
  /\ tx' = [tx EXCEPT ![r].pc = IF OkCallbackHolds(rx[r].cbs)
                                THEN "OnReadDone_255" ELSE "OnReadDone_258"]
  /\ UNCHANGED <<reactor_map_, rx, app, attempts, outcome>>

\* if (cbs_.ok && cbs_.ok(this, response_))
OnReadDone_240(r) ==
  /\ tx[r].pc = "OnReadDone_240"
  /\ queue' = IF rx[r].cbs = "app"
              THEN TriggerEvent(queue, kListFeaturesOnReadDoneOk, r) ELSE queue
  /\ gh' = [gh EXCEPT ![r].okCb = @ + (IF CallbackSet(rx[r].cbs) THEN 1 ELSE 0)]
  /\ tx' = [tx EXCEPT ![r].pc = IF OkCallbackHolds(rx[r].cbs)
                                THEN "OnReadDone_255" ELSE "OnReadDone_258"]
  /\ UNCHANGED <<reactor_map_, rx, app, attempts, outcome>>

\* (mutation of HoldBranchOp: the next item is fetched eagerly instead of holding)
HoldBranchOp_Eager == "StartRead"

\* The transport operation of the hold branch.
HoldBranchOp == "AddHold"

\* this->AddHold(); return;
OnReadDone_255(r) ==
  /\ tx[r].pc = "OnReadDone_255"
  /\ tx' = [tx EXCEPT ![r] = [TransportOp(HoldBranchOp, @) EXCEPT !.pc = "idle"]]
  /\ gh' = [gh EXCEPT ![r] = Count(@, HoldBranchOp, rx[r].read_no_more_)]
  /\ UNCHANGED <<reactor_map_, rx, queue, app, attempts, outcome>>

\* (mutation of OnReadDone_258: the declined response stays marked ready)
OnReadDone_258_KeepsReady(r) ==
  /\ tx[r].pc = "OnReadDone_258"
  /\ tx' = [tx EXCEPT ![r].pc = "OnReadDone_260"]
  /\ UNCHANGED <<reactor_map_, rx, queue, app, attempts, outcome, gh>>

\* response_ready_ = false;
OnReadDone_258(r) ==
  /\ tx[r].pc = "OnReadDone_258"
  /\ rx' = [rx EXCEPT ![r].response_ready_ = FALSE]
  /\ tx' = [tx EXCEPT ![r].pc = "OnReadDone_260"]
  /\ UNCHANGED <<reactor_map_, queue, app, attempts, outcome, gh>>

\* (mutation of OnReadDone_260: a hold is added although the callback declined)
OnReadDone_260_Holds(r) ==
  /\ tx[r].pc = "OnReadDone_260"
  /\ tx' = [tx EXCEPT ![r] = [AddHold(@) EXCEPT !.pc = "idle"]]
  /\ gh' = [gh EXCEPT ![r] = Count(@, "AddHold", rx[r].read_no_more_)]
  /\ UNCHANGED <<reactor_map_, rx, queue, app, attempts, outcome>>

\* this->StartRead(&response_);
OnReadDone_260(r) ==
  /\ tx[r].pc = "OnReadDone_260"
  /\ tx' = [tx EXCEPT ![r] = [StartRead(@) EXCEPT !.pc = "idle"]]
  /\ gh' = [gh EXCEPT ![r] = Count(@, "StartRead", rx[r].read_no_more_)]
  /\ UNCHANGED <<reactor_map_, rx, queue, app, attempts, outcome>>

\* ----------------------------------------- ProxyReadReactor::OnDone, by line
\* (mutation of OnDone_268: OnDone discards the response the reactor holds)
OnDone_268_ClearsResponse(r) ==
  /\ tx[r].pc = "OnDone_268"
  /\ rx' = [rx EXCEPT ![r].read_no_more_ = TRUE, ![r].response_ = EmptyResponse]
  /\ tx' = [tx EXCEPT ![r].pc = IF CallbackSet(rx[r].cbs) THEN "OnDone_270" ELSE "idle"]
  /\ UNCHANGED <<reactor_map_, queue, app, attempts, outcome, gh>>

\* read_no_more_ = true; if (cbs_.done) { ... }
OnDone_268(r) ==
  /\ tx[r].pc = "OnDone_268"
  /\ rx' = [rx EXCEPT ![r].read_no_more_ = TRUE]
  /\ tx' = [tx EXCEPT ![r].pc = IF CallbackSet(rx[r].cbs) THEN "OnDone_270" ELSE "idle"]
  /\ UNCHANGED <<reactor_map_, queue, app, attempts, outcome, gh>>

\* (mutation of OnDone_270: the delivered status is not stored)
OnDone_270_NotStored(r) ==
  /\ tx[r].pc = "OnDone_270"
  /\ tx' = [tx EXCEPT ![r].pc = "OnDone_272"]
  /\ UNCHANGED <<reactor_map_, rx, queue, app, attempts, outcome, gh>>

\* status_ = status;
OnDone_270(r) ==
  /\ tx[r].pc = "OnDone_270"
  /\ rx' = [rx EXCEPT ![r].status_ = tx[r].st]
  /\ tx' = [tx EXCEPT ![r].pc = "OnDone_272"]
  /\ UNCHANGED <<reactor_map_, queue, app, attempts, outcome, gh>>

\* (mutation of OnDone_272: the done callback does the handler's work itself, on
\* the transport's thread, instead of enqueuing the event)
OnDone_272_Inline(r) ==
  /\ tx[r].pc = "OnDone_272"
  /\ reactor_map_' = [reactor_map_ EXCEPT !["ListFeatures"] = NoReactor]
  /\ gh' = [gh EXCEPT ![r].doneCb = @ + 1]
  /\ tx' = [tx EXCEPT ![r].pc = "idle"]
  /\ UNCHANGED <<rx, queue, app, attempts, outcome>>

\* cbs_.done(this, status);
OnDone_272(r) ==
  /\ tx[r].pc = "OnDone_272"
  /\ queue' = IF rx[r].cbs = "app"
              THEN TriggerEvent(queue, kListFeaturesOnDone, r) ELSE queue
  /\ gh' = [gh EXCEPT ![r].doneCb = @ + 1]
  /\ tx' = [tx EXCEPT ![r].pc = "idle"]
  /\ UNCHANGED <<reactor_map_, rx, app, attempts, outcome>>

\* ---------------------------------------- ProxyUnaryReactor::OnDone, by line
\* (mutation of ReadyAfterDone: the response is marked ready whatever the status)
ReadyAfterDone_Always(st) == TRUE

\* Whether OnDone marks the response ready.
ReadyAfterDone(st) == st = "OK"

\* response_ready_ = status.ok(); if (cbs_.done) { ... }
OnDone_109(r) ==
  /\ tx[r].pc = "OnDone_109"
  /\ rx' = [rx EXCEPT ![r].response_ready_ = ReadyAfterDone(tx[r].st)]
  /\ tx' = [tx EXCEPT ![r].pc = IF CallbackSet(rx[r].cbs) THEN "OnDone_111" ELSE "idle"]
  /\ UNCHANGED <<reactor_map_, queue, app, attempts, outcome, gh>>

\* (mutation of StoredStatus: the delivered status is not copied)
StoredStatus_Kept(delivered, old) == old

\* The status OnDone stores before it invokes the callback.
StoredStatus(delivered, old) == delivered

\* (mutation of OnDone_111: the status is kept in a place all reactors share)
OnDone_111_Shared(r) ==
  /\ tx[r].pc = "OnDone_111"
  /\ rx' = [rx EXCEPT ![1].status_ = tx[r].st]
  /\ tx' = [tx EXCEPT ![r].pc = "OnDone_113"]
  /\ UNCHANGED <<reactor_map_, queue, app, attempts, outcome, gh>>

\* status_ = status;
OnDone_111(r) ==
  /\ tx[r].pc = "OnDone_111"
  /\ rx' = [rx EXCEPT ![r].status_ = StoredStatus(tx[r].st, @)]
  /\ tx' = [tx EXCEPT ![r].pc = "OnDone_113"]
  /\ UNCHANGED <<reactor_map_, queue, app, attempts, outcome, gh>>

\* (mutation of OnDone_113: the done callback enqueues no event)
OnDone_113_NoEvent(r) ==
  /\ tx[r].pc = "OnDone_113"
  /\ gh' = [gh EXCEPT ![r].doneCb = @ + 1]
  /\ tx' = [tx EXCEPT ![r].pc = "idle"]
  /\ UNCHANGED <<reactor_map_, rx, queue, app, attempts, outcome>>

\* (mutation of OnDone_113: the done callback waits until the consumer has
\* emptied the queue before it enqueues its event)
OnDone_113_Waits(r) ==
  /\ tx[r].pc = "OnDone_113"
  /\ queue = <<>>
  /\ queue' = IF rx[r].cbs = "app"
              THEN TriggerEvent(queue, kGetFeatureOnDone, r) ELSE queue
  /\ gh' = [gh EXCEPT ![r].doneCb = @ + 1]
  /\ tx' = [tx EXCEPT ![r].pc = "idle"]
  /\ UNCHANGED <<reactor_map_, rx, app, attempts, outcome>>

\* cbs_.done(this, status, response_);
OnDone_113(r) ==
  /\ tx[r].pc = "OnDone_113"
  /\ queue' = IF rx[r].cbs = "app"
              THEN TriggerEvent(queue, kGetFeatureOnDone, r) ELSE queue
  /\ gh' = [gh EXCEPT ![r].doneCb = @ + 1]
  /\ tx' = [tx EXCEPT ![r].pc = "idle"]
  /\ UNCHANGED <<reactor_map_, rx, app, attempts, outcome>>

\* ------------------------------------------------ RouteGuideClient: admission
\* The constructor of the RPC's ClientReactor starts the call: a stream requests
\* its first read and starts, a unary call starts.  The server can send up to
\* MaxItems items.
StartedCall(k) ==
  IF k = "ListFeatures"
  THEN [StartRead(NewCall) EXCEPT !.srvLeft = MaxItems]
  ELSE NewCall

\* (mutation of SlotBusy: the admission check is missing)
SlotBusy_Never(k) == FALSE

\* (mutation of SlotBusy: a reactor under any key makes every key busy)
SlotBusy_AnyKey(k) == \E q \in Keys : reactor_map_[q] # NoReactor

\* if (reactor_map_[RpcKey]) { ...; return; }
SlotBusy(k) == reactor_map_[k] # NoReactor

\* (mutation of Rejected: the busy branch also cancels the call in execution)
Rejected_Cancels(k, id) ==
  /\ outcome' = [outcome EXCEPT ![id] =
                   [key |-> k, res |-> "rejected", ret |-> "void",
                    log |-> "already in execution, ignoring"]]
  /\ tx' = [tx EXCEPT ![reactor_map_[k]].cancel = TRUE]
  /\ UNCHANGED <<reactor_map_, rx, queue, gh>>

\* The busy branch: the log line and the return; the function returns void.
Rejected(k, id) ==
  /\ outcome' = [outcome EXCEPT ![id] =
                   [key |-> k, res |-> "rejected", ret |-> "void",
                    log |-> "already in execution, ignoring"]]
  /\ UNCHANGED <<reactor_map_, rx, tx, queue, gh>>

\* reactor_map_[RpcKey] = std::make_unique<ClientReactor>(...): the new reactor
\* is constructed with the callbacks that trigger the events, its call starts,
\* and the slot takes it over (a reactor the slot held before is destroyed, and
\* its destructor calls TryCancel).
Admitted(k, id) ==
  LET old == reactor_map_[k] IN
  /\ outcome' = [outcome EXCEPT ![id] =
                   [key |-> k, res |-> "admitted", ret |-> "void", log |-> "created"]]
  /\ reactor_map_' = [reactor_map_ EXCEPT ![k] = id]
  /\ rx' = [r \in Ids |->
              IF r = id THEN [NewReactor EXCEPT !.life = "live", !.key = k, !.cbs = "app"]
              ELSE IF r = old THEN [rx[r] EXCEPT !.life = "destroyed"]
              ELSE rx[r]]
  /\ tx' = [r \in Ids |->
              IF r = id THEN StartedCall(k)
              ELSE IF r = old THEN [tx[r] EXCEPT !.cancel = TRUE]
              ELSE tx[r]]
  /\ UNCHANGED <<queue, gh>>

\* One call of GetFeature or ListFeatures on the application thread.
CallRpc(k) ==
  /\ app.pc = "idle" /\ attempts < MaxAttempts
  /\ attempts' = attempts + 1
  /\ app' = app
  /\ IF SlotBusy(k)
     THEN Rejected(k, attempts + 1)
     ELSE Admitted(k, attempts + 1)

GetFeature == CallRpc("GetFeature")
ListFeatures == CallRpc("ListFeatures")

\* --------------------------------------- ProxyReadReactor::GetResponse, by line
\* GetResponse returns v.  A handler of RouteGuideClient ignores the value and
\* ends, dropping its local response; any other caller keeps both.
Returned(a, v) ==
  IF rx[a.r].cbs = "app" THEN AppIdle ELSE [a EXCEPT !.pc = "idle", !.ret = v]

\* (mutation of GetResponse_204: the ready flag is not consulted)
GetResponse_204_Unchecked ==
  /\ app.pc = "GetResponse_204"
  /\ app' = [app EXCEPT !.pc = "GetResponse_206"]
  /\ UNCHANGED <<reactor_map_, rx, tx, queue, attempts, outcome, gh>>

\* if (!response_ready_) return false;
GetResponse_204 ==
  /\ app.pc = "GetResponse_204"
  /\ app' = IF rx[app.r].response_ready_
            THEN [app EXCEPT !.pc = "GetResponse_206"] ELSE Returned(app, "false")
  /\ UNCHANGED <<reactor_map_, rx, tx, queue, attempts, outcome, gh>>

\* swap(response_, response);
GetResponse_206 ==
  /\ app.pc = "GetResponse_206"
  /\ rx' = [rx EXCEPT ![app.r].response_ = app.response]
  /\ app' = [app EXCEPT !.response = rx[app.r].response_, !.pc = "GetResponse_207"]
  /\ gh' = [gh EXCEPT ![app.r].taken = @ + 1]
  /\ UNCHANGED <<reactor_map_, tx, queue, attempts, outcome>>

\* (mutation of GetResponse_207: the ready flag is not cleared after the swap)
GetResponse_207_KeepsReady ==
  /\ app.pc = "GetResponse_207"
  /\ app' = [app EXCEPT !.pc = "GetResponse_208"]
  /\ UNCHANGED <<reactor_map_, rx, tx, queue, attempts, outcome, gh>>

\* response_ready_ = false;
GetResponse_207 ==
  /\ app.pc = "GetResponse_207"
  /\ rx' = [rx EXCEPT ![app.r].response_ready_ = FALSE]
  /\ app' = [app EXCEPT !.pc = "GetResponse_208"]
  /\ UNCHANGED <<reactor_map_, tx, queue, attempts, outcome, gh>>

\* if (!read_no_more_) { ... } return true;
GetResponse_208 ==
  /\ app.pc = "GetResponse_208"
  /\ IF ~rx[app.r].read_no_more_
     THEN app' = [app EXCEPT !.pc = "GetResponse_210"] /\ gh' = gh
     ELSE /\ app' = Returned(app, "true")
          /\ gh' = [gh EXCEPT ![app.r].getReturned = @ + 1]
  /\ UNCHANGED <<reactor_map_, rx, tx, queue, attempts, outcome>>

\* (mutation of ResumeOps: the hold is released before the next read is requested)
ResumeOps_HoldFirst == <<"RemoveHold", "StartRead">>

\* The two transport operations of the resume, in the order of lines 210, 212.
ResumeOps == <<"StartRead", "RemoveHold">>

\* this->StartRead(&response_);
GetResponse_210 ==
  /\ app.pc = "GetResponse_210"
  /\ tx' = [tx EXCEPT ![app.r] = TransportOp(ResumeOps[1], @)]
  /\ gh' = [gh EXCEPT ![app.r] =
              [Count(@, ResumeOps[1], rx[app.r].read_no_more_) EXCEPT !.resume = @ + 1]]
  /\ app' = [app EXCEPT !.pc = "GetResponse_212"]
  /\ UNCHANGED <<reactor_map_, rx, queue, attempts, outcome>>

\* (mutation of GetResponse_212: GetResponse returns without releasing the hold)
GetResponse_212_NoRemove ==
  /\ app.pc = "GetResponse_212"
  /\ gh' = [gh EXCEPT ![app.r].getReturned = @ + 1]
  /\ app' = Returned(app, "true")
  /\ UNCHANGED <<reactor_map_, rx, tx, queue, attempts, outcome>>

\* this->RemoveHold(); return true;
GetResponse_212 ==
  /\ app.pc = "GetResponse_212"
  /\ tx' = [tx EXCEPT ![app.r] = TransportOp(ResumeOps[2], @)]
  /\ gh' = [gh EXCEPT ![app.r] =
              [Count(@, ResumeOps[2], rx[app.r].read_no_more_) EXCEPT !.getReturned = @ + 1]]
  /\ app' = Returned(app, "true")
  /\ UNCHANGED <<reactor_map_, rx, queue, attempts, outcome>>

\* -------------------------------------- ProxyUnaryReactor::GetResponse, by line
\* if (!response_ready_) return false;
GetResponse_89 ==
  /\ app.pc = "GetResponse_89"
  /\ app' = IF rx[app.r].response_ready_
            THEN [app EXCEPT !.pc = "GetResponse_91"] ELSE Returned(app, "false")
  /\ UNCHANGED <<reactor_map_, rx, tx, queue, attempts, outcome, gh>>

\* swap(response_, response);
GetResponse_91 ==
  /\ app.pc = "GetResponse_91"
  /\ rx' = [rx EXCEPT ![app.r].response_ = app.response]
  /\ app' = [app EXCEPT !.response = rx[app.r].response_, !.pc = "GetResponse_92"]
  /\ gh' = [gh EXCEPT ![app.r].taken = @ + 1]
  /\ UNCHANGED <<reactor_map_, tx, queue, attempts, outcome>>

\* response_ready_ = false; return true;
GetResponse_92 ==
  /\ app.pc = "GetResponse_92"
  /\ rx' = [rx EXCEPT ![app.r].response_ready_ = FALSE]
  /\ app' = Returned(app, "true")
  /\ gh' = [gh EXCEPT ![app.r].getReturned = @ + 1]
  /\ UNCHANGED <<reactor_map_, tx, queue, attempts, outcome>>

\* ------------------------------------------- EventLoop::Run and the handlers
\* (mutation of NextEvent: the consumer looks at the newest event)
NextEvent_Last == queue[Len(queue)]

\* The consumer takes the event at the head of the queue and runs its handler.
NextEvent == Head(queue)

\* reactor_.reset(): the reactor in the slot is destroyed; its destructor calls
\* context_->TryCancel().  Before it the handler read Status() of the event's
\* reactor e (and, for GetFeature with an OK status, took the response with
\* GetResponse).  Nothing of a destroyed reactor remains but the status its
\* call ended with and the status its handler saw.
ResetSlot(k, e) ==
  LET d == reactor_map_[k] IN
  /\ reactor_map_' = [reactor_map_ EXCEPT ![k] = NoReactor]
  /\ gh' = [r \in Ids |->
              IF r = e THEN [NewHistory EXCEPT !.handled = rx[e].status_]
              ELSE IF r = d THEN NewHistory
              ELSE gh[r]]
  /\ tx' = [r \in Ids |->
              IF r = d THEN [NewCall EXCEPT !.cancel = TRUE, !.done = tx[r].done,
                                            !.fin = tx[r].fin, !.st = tx[r].st,
                                            !.reads = tx[r].reads, !.holds = tx[r].holds,
                                            !.pc = tx[r].pc]
              ELSE tx[r]]
  /\ rx' = [r \in Ids |->
              IF r = d THEN [NewReactor EXCEPT !.life = "destroyed", !.key = k]
              ELSE rx[r]]

\* (mutation of HandleGetFeatureOnDone: the event stays queued after its handler)
HandleGetFeatureOnDone_KeepsEvent ==
  /\ app.pc = "idle" /\ queue # <<>> /\ NextEvent.name = kGetFeatureOnDone
  /\ queue' = queue
  /\ ResetSlot("GetFeature", NextEvent.reactor)
  /\ UNCHANGED <<app, attempts, outcome>>

\* Handler of kGetFeatureOnDone: Status(), GetResponse when OK, reactor_.reset().
HandleGetFeatureOnDone ==
  /\ app.pc = "idle" /\ queue # <<>> /\ NextEvent.name = kGetFeatureOnDone
  /\ queue' = Tail(queue)
  /\ ResetSlot("GetFeature", NextEvent.reactor)
  /\ UNCHANGED <<app, attempts, outcome>>

\* (mutation of HandleListFeaturesOnReadDoneOk: the handler does not take the
\* response)
HandleListFeaturesOnReadDoneOk_Skips ==
  /\ app.pc = "idle" /\ queue # <<>> /\ NextEvent.name = kListFeaturesOnReadDoneOk
  /\ queue' = Tail(queue)
  /\ UNCHANGED <<reactor_map_, rx, tx, app, attempts, outcome, gh>>

\* Handler of kListFeaturesOnReadDoneOk: calls GetResponse on the event's reactor.
HandleListFeaturesOnReadDoneOk ==
  /\ app.pc = "idle" /\ queue # <<>> /\ NextEvent.name = kListFeaturesOnReadDoneOk
  /\ queue' = Tail(queue)
  /\ app' = [pc |-> "GetResponse_204", r |-> NextEvent.reactor,
             response |-> EmptyResponse, ret |-> "none"]
  /\ UNCHANGED <<reactor_map_, rx, tx, attempts, outcome, gh>>

\* (mutation of HandleListFeaturesOnReadDoneNOk: the slot is released at the end
\* of the stream's reads instead of at OnDone)
HandleListFeaturesOnReadDoneNOk_Resets ==
  /\ app.pc = "idle" /\ queue # <<>> /\ NextEvent.name = kListFeaturesOnReadDoneNOk
  /\ queue' = Tail(queue)
  /\ reactor_map_' = [reactor_map_ EXCEPT !["ListFeatures"] = NoReactor]
  /\ UNCHANGED <<rx, tx, app, attempts, outcome, gh>>

\* (mutation of HandleListFeaturesOnReadDoneNOk: the handler is started while
\* another handler has not returned)
HandleListFeaturesOnReadDoneNOk_Overlaps ==
  /\ queue # <<>> /\ NextEvent.name = kListFeaturesOnReadDoneNOk
  /\ queue' = Tail(queue)
  /\ UNCHANGED <<reactor_map_, rx, tx, app, attempts, outcome, gh>>

\* Handler of kListFeaturesOnReadDoneNOk: logs.
HandleListFeaturesOnReadDoneNOk ==
  /\ app.pc = "idle" /\ queue # <<>> /\ NextEvent.name = kListFeaturesOnReadDoneNOk
  /\ queue' = Tail(queue)
  /\ UNCHANGED <<reactor_map_, rx, tx, app, attempts, outcome, gh>>

\* Handler of kListFeaturesOnDone: Status(), reactor_.reset().
HandleListFeaturesOnDone ==
  /\ app.pc = "idle" /\ queue # <<>> /\ NextEvent.name = kListFeaturesOnDone
  /\ queue' = Tail(queue)
  /\ ResetSlot("ListFeatures", NextEvent.reactor)
  /\ UNCHANGED <<app, attempts, outcome>>

\* ------------------------------------------------------------ specification
\* The transport thread of call r: deliveries, and the reactions' statements.
StreamReactions(r) ==
  \/ ReadCompletes(r) \/ StreamFinishes(r) \/ StreamOnDone(r)
  \/ OnReadDone_232(r) \/ OnReadDone_234(r) \/ OnReadDone_236(r)
  \/ OnReadDone_240(r) \/ OnReadDone_255(r)
  \/ OnDone_268(r) \/ OnDone_270(r) \/ OnDone_272(r)

NoHoldBranch(r) == OnReadDone_258(r) \/ OnReadDone_260(r)

UnaryReactions(r) ==
  \/ UnaryOnDone(r) \/ OnDone_109(r) \/ OnDone_111(r) \/ OnDone_113(r)

GetResponse ==
  \/ GetResponse_204 \/ GetResponse_206 \/ GetResponse_207
  \/ GetResponse_208 \/ GetResponse_210 \/ GetResponse_212

Next ==
  \/ GetFeature \/ ListFeatures
  \/ HandleGetFeatureOnDone \/ HandleListFeaturesOnReadDoneOk
  \/ HandleListFeaturesOnReadDoneNOk \/ HandleListFeaturesOnDone
  \/ GetResponse
  \/ \E r \in Ids : StreamReactions(r) \/ UnaryReactions(r)

\* The reactor client application: RouteGuideClient on the application thread,
\* its reactors (whose ok callback always holds), the event loop, the transport.
Spec == Init /\ [][Next]_vars

\* ------------------------------------------- the reactor used as a library
\* An application (or a test) constructs one reactor with callbacks of its
\* choice: those of RouteGuideClient, with the reactor in its slot, or callbacks
\* that enqueue nothing, the stream's ok callback holding or not.
LibModes(k) == IF k = "ListFeatures" THEN {"app", "hold", "nohold"} ELSE {"app", "plain"}

LibStart ==
  /\ app.pc = "idle" /\ attempts = 0
  /\ attempts' = 1
  /\ \E k \in Keys : \E mode \in LibModes(k) :
       /\ rx' = [rx EXCEPT ![1] = [NewReactor EXCEPT !.life = "live",
                                     !.key = k, !.cbs = mode]]
       /\ tx' = [tx EXCEPT ![1] = StartedCall(k)]
       /\ reactor_map_' = IF mode = "app" THEN [reactor_map_ EXCEPT ![k] = 1]
                          ELSE reactor_map_
       /\ outcome' = [outcome EXCEPT ![1] =
                        [key |-> k, res |-> "admitted", ret |-> "none", log |-> "none"]]
  /\ UNCHANGED <<queue, app, gh>>

\* An object of the caller's, passed as the out argument of GetResponse.
CallerObject == MaxItems + 1

\* The application thread calls GetResponse whenever it likes
\* (reactor_client.h: "The application MAY call GetResponse() while a gRPC
\* thread is on OnReadDone()"), with a fresh or a used object as out argument.
LibGetResponse ==
  /\ app.pc = "idle" /\ rx[1].life = "live" /\ rx[1].cbs # "app"
  /\ \E out \in {EmptyResponse, CallerObject} :
       app' = [pc |-> IF IsStream(1) THEN "GetResponse_204" ELSE "GetResponse_89",
               r |-> 1, response |-> out, ret |-> "none"]
  /\ UNCHANGED <<reactor_map_, rx, tx, queue, attempts, outcome, gh>>

\* (mutation of TryCancelled: a cancel request re-opens a call that was done)
TryCancelled_Reopens(t) == [t EXCEPT !.cancel = TRUE, !.done = FALSE]

\* context_->TryCancel(): a request to the transport to end the call.
TryCancelled(t) == [t EXCEPT !.cancel = TRUE]

\* (mutation of TryCancel: the reactor records the cancellation in status_)
TryCancel_SetsStatus ==
  /\ rx[1].life = "live" /\ gh[1].cancels < MaxCancels
  /\ tx' = [tx EXCEPT ![1] = TryCancelled(@)]
  /\ rx' = [rx EXCEPT ![1].status_ = "CANCELLED"]
  /\ gh' = [gh EXCEPT ![1].cancels = @ + 1]
  /\ UNCHANGED <<reactor_map_, queue, app, attempts, outcome>>

\* TryCancel(), from any thread at any time.
TryCancel ==
  /\ rx[1].life = "live" /\ gh[1].cancels < MaxCancels
  /\ tx' = [tx EXCEPT ![1] = TryCancelled(@)]
  /\ gh' = [gh EXCEPT ![1].cancels = @ + 1]
  /\ UNCHANGED <<reactor_map_, rx, queue, app, attempts, outcome>>

\* The owner of a reactor whose call is done destroys it: the destructor calls
\* context_->TryCancel().
LibDestroy ==
  /\ rx[1].life = "live" /\ rx[1].cbs # "app"
  /\ tx[1].done /\ tx[1].pc = "idle" /\ app.pc = "idle"
  /\ rx' = [rx EXCEPT ![1].life = "destroyed"]
  /\ tx' = [tx EXCEPT ![1] = TryCancelled(@)]
  /\ UNCHANGED <<reactor_map_, queue, app, attempts, outcome, gh>>

UnaryGetResponse == GetResponse_89 \/ GetResponse_91 \/ GetResponse_92

Handlers ==
  \/ HandleGetFeatureOnDone \/ HandleListFeaturesOnReadDoneOk
  \/ HandleListFeaturesOnReadDoneNOk \/ HandleListFeaturesOnDone

Transport(r) == StreamReactions(r) \/ NoHoldBranch(r) \/ UnaryReactions(r)

NextLib ==
  \/ LibStart \/ LibGetResponse \/ TryCancel \/ LibDestroy
  \/ GetResponse \/ UnaryGetResponse
  \/ Handlers
  \/ Transport(1)

SpecLib == Init /\ [][NextLib]_vars

\* The transport's threads run: a delivery or a statement of a reaction that
\* can be made is made.  The application thread runs: a GetResponse call that
\* was entered returns, and an event in the queue gets its handler run.  Nothing
\* makes the application call GetResponse or TryCancel.
SpecLibFair ==
  /\ SpecLib
  /\ WF_vars(Transport(1))
  /\ WF_vars(GetResponse \/ UnaryGetResponse)
  /\ WF_vars(Handlers)

\* The client application with its threads running: the transport completes
\* every read and every call and runs the reactions' statements, and the
\* consumer keeps dispatching: an event in the queue gets its handler run and
\* a GetResponse call that was entered returns.
SpecFair ==
  /\ Spec
  /\ \A r \in Ids : WF_vars(StreamReactions(r) \/ UnaryReactions(r))
  /\ WF_vars(GetResponse)
  /\ WF_vars(Handlers)

\* ------------------------------------ the reactor with or without callbacks
\* Every slot of the callbacks struct may be left empty: the reactor tests each
\* one before it calls it (lines 110, 236, 240, 269).
LibStartBare ==
  /\ app.pc = "idle" /\ attempts = 0
  /\ attempts' = 1
  /\ \E k \in Keys :
       /\ rx' = [rx EXCEPT ![1] = [NewReactor EXCEPT !.life = "live",
                                     !.key = k, !.cbs = "bare"]]
       /\ tx' = [tx EXCEPT ![1] = StartedCall(k)]
       /\ outcome' = [outcome EXCEPT ![1] =
                        [key |-> k, res |-> "admitted", ret |-> "none", log |-> "none"]]
  /\ UNCHANGED <<reactor_map_, queue, app, gh>>

NextOpt == LibStartBare \/ NextLib

SpecOpt == Init /\ [][NextOpt]_vars

\* ------------------------------------------------- EventLoop::Run and Halt
\* Halt's request to stop, as the loop sees it among the events.
kHalt == "Halt"
HaltEvent == [name |-> kHalt, reactor |-> NoReactor]

\* Halt was called.
HaltRequested == \E i \in 1..Len(queue) : queue[i] = HaltEvent

\* EventLoop::Halt(), called once by a thread other than the consumer: it
\* leaves the request for the loop and returns.
Halt ==
  /\ ~HaltRequested /\ app.pc # "Returned"
  /\ queue' = Append(queue, HaltEvent)
  /\ UNCHANGED <<reactor_map_, rx, tx, app, attempts, outcome, gh>>

\* (mutation of RunReturns: the loop stops when it finds nothing to dispatch)
RunReturns_WhenEmpty ==
  /\ app.pc = "idle" /\ (HaltRequested \/ queue = <<>>)
  /\ app' = [app EXCEPT !.pc = "Returned"]
  /\ UNCHANGED <<reactor_map_, rx, tx, queue, attempts, outcome, gh>>

\* EventLoop::Run() returns to its caller: between two handlers the loop finds
\* that Halt was called.  Events still queued are abandoned; those ahead of
\* the request may have been dispatched before (draining) or not.
RunReturns ==
  /\ app.pc = "idle" /\ HaltRequested
  /\ app' = [app EXCEPT !.pc = "Returned"]
  /\ UNCHANGED <<reactor_map_, rx, tx, queue, attempts, outcome, gh>>

NextRun == Halt \/ RunReturns \/ Next

\* The client with a thread that may call Halt.  The consumer thread runs: a
\* handler that was started returns, and the loop, once it can stop, stops.
SpecRun ==
  /\ Init /\ [][NextRun]_vars
  /\ WF_vars(GetResponse)
  /\ WF_vars(RunReturns)

\* ------------------------------------------- several reactors side by side
\* A test constructs a GetFeature reactor, with a done callback that enqueues
\* nothing, while others it constructed are in flight.
MultiStart(r) ==
  /\ rx[r].life = "none"
  /\ \A q \in Ids : q < r => rx[q].life # "none"
  /\ rx' = [rx EXCEPT ![r] = [NewReactor EXCEPT !.life = "live",
                                 !.key = "GetFeature", !.cbs = "plain"]]
  /\ tx' = [tx EXCEPT ![r] = StartedCall("GetFeature")]
  /\ UNCHANGED <<reactor_map_, queue, app, attempts, outcome, gh>>

\* The test's thread calls GetResponse on one of its reactors.
MultiGetResponse(r) ==
  /\ app.pc = "idle" /\ rx[r].life = "live"
  /\ app' = [pc |-> "GetResponse_89", r |-> r, response |-> EmptyResponse, ret |-> "none"]
  /\ UNCHANGED <<reactor_map_, rx, tx, queue, attempts, outcome, gh>>

NextMulti ==
  \/ \E r \in Ids : MultiStart(r) \/ MultiGetResponse(r) \/ UnaryReactions(r)
  \/ UnaryGetResponse

\* The transport serves every call: the completion of a started call is
\* delivered and a reaction that runs executes its statements.
SpecMulti ==
  /\ Init /\ [][NextMulti]_vars
  /\ \A r \in Ids : WF_vars(UnaryReactions(r))

\* =================================================================== claims
Streams == {r \in Ids : rx[r].life # "none" /\ IsStream(r)}
Unaries == {r \in Ids : rx[r].life # "none" /\ IsUnary(r)}
InResume(r) ==
  app.r = r /\ app.pc \in {"GetResponse_206", "GetResponse_207",
                           "GetResponse_208", "GetResponse_210"}

\* C1: with an ok callback that holds every item, fetches and resumes go in
\* lock-step.  At most one read is requested at a time; a read is requested
\* only when every delivered item was taken; the k-th resume StartRead follows
\* the k-th take; AddHold is called once per delivered item; and when the call
\* is done, the items delivered, the AddHold calls, the successful GetResponse
\* calls and the resume StartRead calls are equally many.
C1_LockStep ==
  \A r \in Streams :
    OkCallbackHolds(rx[r].cbs) =>
      /\ tx[r].reads \in {0, 1}
      /\ (tx[r].reads > 0 => gh[r].taken = tx[r].sent)
      /\ gh[r].resume <= gh[r].taken /\ gh[r].taken <= gh[r].resume + 1
      /\ gh[r].taken <= tx[r].sent /\ tx[r].sent <= gh[r].taken + 1
      /\ gh[r].addHold <= tx[r].sent /\ tx[r].sent <= gh[r].addHold + 1
      /\ (tx[r].done =>
            /\ gh[r].addHold = tx[r].sent
            /\ gh[r].taken = tx[r].sent
            /\ gh[r].resume = tx[r].sent
            /\ gh[r].getReturned = tx[r].sent)

\* A stream that delivered MaxItems items, each held, taken and resumed, is done.
C1_Witness ==
  \E r \in Streams :
    /\ tx[r].done /\ tx[r].sent = MaxItems
    /\ gh[r].addHold = MaxItems /\ gh[r].taken = MaxItems /\ gh[r].resume = MaxItems

\* C2: the resume requests the next read before it removes the hold.  From the
\* AddHold of OnReadDone until the matching GetResponse has returned the
\* transport always has a hold or an outstanding read, no RemoveHold precedes
\* its StartRead, and OnDone is not delivered while the application thread is
\* between its decision to resume and its StartRead.
C2_HoldCoversResume ==
  \A r \in Streams :
    /\ (gh[r].addHold > gh[r].getReturned => tx[r].holds > 0 \/ tx[r].reads > 0)
    /\ gh[r].removeHold <= gh[r].resume
    /\ (InResume(r) => ~tx[r].done)

\* The application thread requested the read and still has the hold.
C2_Witness ==
  /\ app.pc = "GetResponse_212"
  /\ tx[app.r].holds = 1 /\ tx[app.r].reads = 1
  /\ gh[app.r].addHold > gh[app.r].getReturned

\* C3: once read_no_more_ is true (after OnReadDone(false) or OnDone) no
\* StartRead is issued on the reactor any more, neither by OnReadDone nor by
\* GetResponse, in every interleaving of the two threads.
C3_NoStartReadAfterNoMore ==
  \A r \in Streams : gh[r].readsAfterNoMore = 0

\* C4: the transport never has a read outstanding into response_ while the
\* application thread is at the swap of GetResponse.
C4_PayloadOwnership ==
  \A r \in Streams :
    (app.r = r /\ app.pc = "GetResponse_206") => tx[r].reads = 0

\* C5: at most one StartRead is outstanding on a stream reactor at any time,
\* whether the ok callback holds or not and wherever the transport thread is
\* in OnReadDone when the application calls GetResponse.
C5_OneReadOutstanding ==
  \A r \in Streams : tx[r].reads <= 1

\* A call is in flight from the construction of its reactor until its reactor
\* is destroyed, and in any case until its OnDone reaction was delivered.
LiveCall(r) ==
  \/ rx[r].life = "live"
  \/ rx[r].life = "destroyed" /\ ~tx[r].done

LiveCalls(k) == {r \in Ids : rx[r].key = k /\ LiveCall(r)}

\* The event the transport posts for the OnDone reaction of a call of key k.
OnDoneEvent(k) == IF k = "GetFeature" THEN kGetFeatureOnDone ELSE kListFeaturesOnDone

\* C6: for each RPC key at most one call is in flight, and it is the reactor in
\* the key's slot; an attempt made while the slot is busy is rejected, creates
\* no reactor then or later (it is not queued), and leaves the slot's reactor.
C6_OneReactorPerKey ==
  /\ \A k \in Keys :
       /\ Cardinality(LiveCalls(k)) <= 1
       /\ LiveCalls(k) = IF reactor_map_[k] = NoReactor THEN {} ELSE {reactor_map_[k]}
  /\ \A i \in Ids :
       /\ outcome[i].res = "rejected" => rx[i].life = "none" /\ tx[i] = NewCall
       /\ outcome[i].res = "admitted" <=> rx[i].life # "none"

C6_Witness ==
  \E i, j \in Ids :
    /\ i < j
    /\ outcome[i].res = "admitted" /\ outcome[j].res = "rejected"
    /\ outcome[i].key = outcome[j].key
    /\ reactor_map_[outcome[i].key] = i /\ rx[i].life = "live"
    /\ attempts = MaxAttempts

\* C7: a rejected attempt changes nothing of the slots, the reactors, the calls
\* in flight, the event queue or the application's position: the call already
\* in progress is neither reset, nor restarted, nor cancelled.
C7_RejectedNoSideEffect ==
  [][(attempts' = attempts + 1 /\ outcome'[attempts'].res = "rejected")
       => UNCHANGED <<reactor_map_, rx, tx, queue, app, gh>>]_vars

C7_Witness ==
  \E j \in Ids :
    /\ outcome[j].res = "rejected"
    /\ reactor_map_[outcome[j].key] # NoReactor
    /\ tx[reactor_map_[outcome[j].key]].sent > 0
    /\ ~tx[reactor_map_[outcome[j].key]].cancel

\* C8: a slot goes from occupied to empty only in the step that handles the
\* OnDone event of the reactor in it, after that call's OnDone was delivered;
\* an attempt for the key is rejected while the slot is occupied and is
\* admitted, as a new reactor in the slot, once it is empty.
C8_ReleaseOnlyAtOnDone ==
  [][/\ \A k \in Keys :
          (reactor_map_[k] # NoReactor /\ reactor_map_'[k] = NoReactor) =>
             /\ queue # <<>>
             /\ NextEvent = [name |-> OnDoneEvent(k), reactor |-> reactor_map_[k]]
             /\ queue' = Tail(queue)
             /\ tx[reactor_map_[k]].done
     /\ attempts' = attempts + 1 =>
          LET i == attempts'
              k == outcome'[i].key
          IN  /\ reactor_map_[k] # NoReactor =>
                    outcome'[i].res = "rejected" /\ reactor_map_'[k] = reactor_map_[k]
              /\ reactor_map_[k] = NoReactor =>
                    /\ outcome'[i].res = "admitted"
                    /\ reactor_map_'[k] = i
                    /\ rx[i].life = "none" /\ rx'[i].life = "live"]_vars

C8_Witness ==
  \E i, j, l \in Ids :
    /\ i < j /\ j < l
    /\ outcome[i].key = outcome[j].key /\ outcome[j].key = outcome[l].key
    /\ outcome[i].res = "admitted" /\ outcome[j].res = "rejected"
    /\ outcome[l].res = "admitted"
    /\ rx[i].life = "destroyed" /\ gh[i].handled # "none"
    /\ reactor_map_[outcome[l].key] = l

C10_UnaryOnDone ==
  \A r \in Unaries :
    /\ tx[r].pc = "OnDone_113" =>
         /\ rx[r].status_ = tx[r].st
         /\ rx[r].response_ready_ = (tx[r].st = "OK")
         /\ gh[r].doneCb = 0
    /\ gh[r].doneCb > 0 => tx[r].done /\ rx[r].status_ = tx[r].st

C10_Witness ==
  \E r \in Unaries :
    /\ tx[r].pc = "OnDone_113" /\ tx[r].st # "OK"
    /\ rx[r].status_ = tx[r].st /\ ~rx[r].response_ready_

\* The application thread is at the first statement of a GetResponse call.
AtGetResponse == app.pc \in {"GetResponse_204", "GetResponse_89"}

\* No response is available on reactor r, told from what happened to it: no
\* completion was delivered yet, the unary call completed with a status that
\* is not OK, the stream got OnReadDone(false), or what was delivered was taken.
NoResponseAvailable(r) ==
  IF IsUnary(r)
  THEN \/ ~tx[r].done
       \/ tx[r].done /\ tx[r].pc \in {"OnDone_111", "OnDone_113", "idle"}
            /\ tx[r].st # "OK"
       \/ gh[r].taken > 0
  ELSE \/ tx[r].sent = 0
       \/ gh[r].nokCb > 0
       \/ tx[r].pc = "idle" /\ gh[r].taken = tx[r].sent

\* C11: a GetResponse call made when no response is available returns false
\* in one step that changes neither the out argument nor anything of the
\* reactor or of its call: no StartRead and no RemoveHold is issued.
C11_NoResponseReturnsFalse ==
  [][(AtGetResponse /\ NoResponseAvailable(app.r) /\ app' # app) =>
       /\ app'.pc = "idle" /\ app'.ret = "false"
       /\ app'.response = app.response
       /\ rx' = rx /\ tx' = tx /\ gh' = gh]_vars

C11_Witness ==
  /\ app.pc = "idle" /\ app.ret = "false" /\ app.response = CallerObject
  /\ IsStream(app.r) /\ gh[app.r].nokCb > 0 /\ gh[app.r].taken = 0
  /\ tx[app.r].sent > 0

\* The payload the transport delivered last to reactor r: the response of the
\* unary call, the latest item of the stream.
DeliveredPayload(r) == IF IsUnary(r) THEN 1 ELSE tx[r].sent

\* How many payloads the transport delivered to reactor r for the application.
Deliveries(r) ==
  IF IsUnary(r)
  THEN IF tx[r].done /\ tx[r].st = "OK" THEN 1 ELSE 0
  ELSE tx[r].sent

\* The application takes responses from r as the reactor means them to be
\* taken: r is a unary reactor or a stream reactor whose ok callback holds.
TakesHeld(r) == rx[r].life = "live" /\ rx[r].cbs # "nohold"

TryCancelCalled == gh'[1].cancels > gh[1].cancels

\* The reactor's call is over and its OnDone reaction has returned.
Completed(r) == tx[r].done /\ tx[r].pc = "idle"

\* C13: TryCancel is idempotent.  A TryCancel call changes none of the
\* reactor's fields (response_, status_, response_ready_, read_no_more_) and
\* nothing of the call but the cancel request; a call made when cancellation was
\* already requested changes nothing at all.  However many calls are made,
\* before, during or after completion and the destructor's included, the done
\* callback is invoked at most once, and exactly once when OnDone has returned.
C13_TryCancelIdempotent ==
  /\ [][TryCancelCalled =>
          /\ rx' = rx
          /\ tx' = [tx EXCEPT ![1].cancel = TRUE]
          /\ tx[1].cancel => tx' = tx]_vars
  /\ [](\A r \in Ids :
          /\ gh[r].doneCb <= 1
          /\ (rx[r].cbs # "app" /\ Completed(r)) => gh[r].doneCb = 1)

\* TryCancel called MaxCancels times, the last one after completion, then the
\* destructor's: the done callback was invoked once.
C13_Witness ==
  /\ gh[1].cancels = MaxCancels /\ rx[1].life = "destroyed" /\ rx[1].cbs # "app"
  /\ Completed(1) /\ gh[1].doneCb = 1 /\ tx[1].st = "OK"

\* TryCancel was called on unary reactor r before its call completed.
CancelledEarly(r) ==
  rx[r].life = "live" /\ IsUnary(r) /\ tx[r].cancel /\ ~tx[r].done

\* The OnDone event of reactor r is in the event loop's queue.
Queued(name, r) ==
  \E i \in 1..Len(queue) : queue[i] = [name |-> name, reactor |-> r]

\* C14: TryCancel on a unary reactor right after its start.  The done callback
\* is invoked at most once, and eventually invoked; the status it gets is the
\* one the call ended with, CANCELLED only if cancellation was requested, and
\* (unless the transport itself fails the call) CANCELLED or OK.  With the
\* callback that re-dispatches through the event loop, the OnDone event waits in
\* the queue until its handler runs, the handler eventually runs, and the status
\* it reads is that status.
C14_UnaryCancel ==
  /\ [](\A r \in Ids : (rx[r].life # "none" /\ IsUnary(r)) =>
          /\ gh[r].doneCb <= 1
          /\ tx[r].done => /\ tx[r].st = tx[r].fin
                           /\ tx[r].st = "CANCELLED" => tx[r].cancel
                           /\ tx[r].fin # "INTERNAL" => tx[r].st \in {"CANCELLED", "OK"}
          /\ (rx[r].life = "live" /\ rx[r].cbs = "app" /\ gh[r].doneCb = 1)
               => Queued(kGetFeatureOnDone, r)
          /\ gh[r].handled # "none" => gh[r].handled = tx[r].st)
  /\ (CancelledEarly(1) ~> (gh[1].doneCb = 1))
  /\ ((CancelledEarly(1) /\ rx[1].cbs = "app") ~> (gh[1].handled # "none"))

\* A cancelled unary call of the application ended CANCELLED and its handler
\* has read that status.
C14_Witness ==
  /\ IsUnary(1) /\ rx[1].life = "destroyed" /\ rx[1].cbs = "app"
  /\ tx[1].fin = "CANCELLED" /\ tx[1].st = "CANCELLED"
  /\ gh[1].handled = "CANCELLED" /\ queue = <<>>

\* A stream reactor whose ok callback declines the hold.
Declines(r) == rx[r].life # "none" /\ IsStream(r) /\ rx[r].cbs = "nohold"

\* The application took, with a GetResponse that ran during OnReadDone, an item
\* the ok callback had declined to hold.
TookDeclined(r) == Declines(r) /\ gh[r].taken > 0

\* TryCancel was called on it while its call was not complete.
CancelledStreaming(r) ==
  Declines(r) /\ rx[r].life = "live" /\ tx[r].cancel /\ ~tx[r].done

EventsOf(name, r) ==
  {i \in 1..Len(queue) : queue[i] = [name |-> name, reactor |-> r]}

\* C16: a stream of the application (the ok callback enqueues an event and
\* holds, the event's handler calls GetResponse).  The k-th successful
\* GetResponse makes the k-th item the server sent visible, the latest one
\* delivered: in order, none lost, none twice.  At most one item event and at
\* most one OnDone event of a reactor are queued; when the OnDone event is
\* queued every item delivered was taken by the handler of its event, no item
\* event of the reactor is left behind it, and the status the OnDone handler
\* reads is the one the call ended with.
C16_AllItemsThenOnDone ==
  /\ [][(app.pc = "GetResponse_206" /\ app'.pc = "GetResponse_207") =>
          /\ app'.response = gh'[app.r].taken
          /\ app'.response = tx[app.r].sent]_vars
  /\ [](\A r \in Streams :
          /\ Cardinality(EventsOf(kListFeaturesOnReadDoneOk, r)) <= 1
          /\ Cardinality(EventsOf(kListFeaturesOnDone, r)) <= 1
          /\ gh[r].okCb <= tx[r].sent
          /\ Queued(kListFeaturesOnDone, r) =>
               /\ EventsOf(kListFeaturesOnReadDoneOk, r) = {}
               /\ gh[r].okCb = tx[r].sent
               /\ gh[r].taken = tx[r].sent /\ gh[r].getReturned = tx[r].sent
               /\ rx[r].status_ = tx[r].st
          /\ gh[r].handled # "none" => gh[r].handled = tx[r].st)

\* A stream of MaxItems items ended OK: all MaxItems were taken, in order, and
\* its OnDone event is the next the event loop dispatches.
C16_Witness ==
  \E r \in Streams :
    /\ queue # <<>> /\ NextEvent = [name |-> kListFeaturesOnDone, reactor |-> r]
    /\ tx[r].sent = MaxItems /\ gh[r].taken = MaxItems /\ gh[r].okCb = MaxItems
    /\ tx[r].st = "OK" /\ rx[r].status_ = "OK" /\ ~tx[r].cancel

\* Reactor r exists before and after the step, and its OnDone had returned.
StaysTerminated(r) ==
  Completed(r) /\ rx[r].life = "live" /\ rx'[r].life = "live"

StateOf(x, t, h) ==
  IF x.life = "none" THEN "Idle"
  ELSE IF t.done THEN "Ended"
  ELSE IF h.addHold > h.taken THEN "ItemHeld"
  ELSE "Reading"

\* The application thread is inside a GetResponse call on reactor r.
InGetResponse(r) == app.r = r /\ app.pc # "idle"

\* C18: the moves of a stream reactor before termination.  Idle is left only
\* to Reading, by the start, with the first read requested.  Reading is left
\* to ItemHeld only by the AddHold of an OnReadDone(true) whose ok callback
\* asked to hold.  ItemHeld is left only to Reading, only by the swap of a
\* GetResponse that found the response ready; it is never left to Ended.  When
\* the ok callback declines, the reactor stays in Reading and requests the
\* next read.  ItemHeld is never entered twice without a take in between; in
\* ItemHeld a hold is in place and the response is ready; in Reading, once
\* GetResponse returned, no hold is left.
C18_StateMachine ==
  /\ [][\A r \in Ids :
         LET s == StateOf(rx[r], tx[r], gh[r])
             n == StateOf(rx'[r], tx'[r], gh'[r])
         IN  (IsStream(r)' /\ rx'[r].life = "live") =>
               /\ s = "Idle" /\ n # "Idle" =>
                    n = "Reading" /\ tx'[r].reads = 1 /\ tx'[r].pc = "idle"
               /\ s = "Reading" => n \in {"Reading", "ItemHeld", "Ended"}
               /\ s = "Reading" /\ n = "ItemHeld" =>
                    /\ tx[r].pc = "OnReadDone_255" /\ tx[r].ok
                    /\ OkCallbackHolds(rx[r].cbs)
                    /\ tx'[r].holds = tx[r].holds + 1
               /\ s = "ItemHeld" => n \in {"ItemHeld", "Reading"}
               /\ s = "ItemHeld" /\ n = "Reading" =>
                    /\ app.r = r /\ app.pc = "GetResponse_206"
                    /\ rx[r].response_ready_
                    /\ app'.response = tx[r].sent
               /\ tx[r].pc = "OnReadDone_260" /\ tx'[r].pc # "OnReadDone_260" =>
                    /\ s = "Reading" /\ n = "Reading"
                    /\ tx'[r].reads = tx[r].reads + 1]_vars
  /\ [](\A r \in Streams :
          LET s == StateOf(rx[r], tx[r], gh[r]) IN
          /\ gh[r].addHold <= gh[r].taken + 1
          /\ s = "ItemHeld" => tx[r].holds > 0 /\ rx[r].response_ready_
          /\ (s = "Reading" /\ ~InGetResponse(r) /\ tx[r].pc # "OnReadDone_255")
               => tx[r].holds <= 0)

\* The second item of a stream is held: the reactor was in ItemHeld, left it by
\* a GetResponse that succeeded, and entered it again.
C18_Witness ==
  /\ IsStream(1) /\ rx[1].cbs = "hold"
  /\ StateOf(rx[1], tx[1], gh[1]) = "ItemHeld"
  /\ gh[1].addHold = 2 /\ gh[1].taken = 1 /\ gh[1].getReturned = 1
  /\ tx[1].sent = 2 /\ tx[1].holds = 1 /\ tx[1].pc = "idle"

\* Stream reactor r is held: an item was delivered, OnReadDone added the hold,
\* and the item is not taken.
Held(r) ==
  rx[r].life = "live" /\ IsStream(r) /\ StateOf(rx[r], tx[r], gh[r]) = "ItemHeld"

\* C19: a held stream reaches the terminal state through cancellation: after
\* TryCancel on a held stream OnDone is eventually delivered, even if the
\* application never takes the held item.
C19_CancelEndsHeldStream ==
  (Held(1) /\ tx[1].cancel) ~> tx[1].done

StoresStatus(r) ==
  /\ tx[r].pc \in {"OnDone_270", "OnDone_111"}
  /\ tx'[r].pc \notin {"OnDone_270", "OnDone_111"}

QueuedBefore(a, b, r) ==
  \E i, j \in 1..Len(queue) :
    /\ i < j
    /\ queue[i] = [name |-> a, reactor |-> r]
    /\ queue[j] = [name |-> b, reactor |-> r]

\* The step dispatches the event (name, r): the consumer takes it from the
\* head of the queue and runs its handler.
Dispatched(name, r) ==
  /\ queue # <<>> /\ NextEvent = [name |-> name, reactor |-> r]
  /\ queue' = Tail(queue)

\* C22: the events of one ListFeatures call are dispatched in the order the
\* transport enqueued them.  In the queue no ReadDoneOk event of a call is
\* behind its ReadDoneNOk or OnDone event and no ReadDoneNOk event behind its
\* OnDone event; the consumer takes events only from the head; when the
\* ReadDoneNOk event is dispatched every ReadDoneOk event of the call was
\* handled (its GetResponse returned) and the OnDone event was not; when the
\* OnDone event is dispatched no other event of the call is left.
C22_CallEventsInOrder ==
  /\ [](\A r \in Streams :
          /\ ~QueuedBefore(kListFeaturesOnReadDoneNOk, kListFeaturesOnReadDoneOk, r)
          /\ ~QueuedBefore(kListFeaturesOnDone, kListFeaturesOnReadDoneOk, r)
          /\ ~QueuedBefore(kListFeaturesOnDone, kListFeaturesOnReadDoneNOk, r))
  /\ [][/\ Len(queue') < Len(queue) => queue' = Tail(queue)
        /\ \A r \in Ids :
             /\ Dispatched(kListFeaturesOnReadDoneNOk, r) =>
                  /\ EventsOf(kListFeaturesOnReadDoneOk, r) = {}
                  /\ gh[r].getReturned = gh[r].okCb
                  /\ rx[r].life = "live" /\ reactor_map_["ListFeatures"] = r
             /\ Dispatched(kListFeaturesOnDone, r) =>
                  /\ EventsOf(kListFeaturesOnReadDoneOk, r) = {}
                  /\ EventsOf(kListFeaturesOnReadDoneNOk, r) = {}
                  /\ gh[r].getReturned = gh[r].okCb /\ gh[r].nokCb = 1
                  /\ rx'[r].life = "destroyed"]_vars

\* The ReadDoneNOk and the OnDone event of a stream whose MaxItems item events
\* were handled wait in the queue, in that order, with an event of another call
\* between them.
C22_Witness ==
  \E r \in Streams : \E u \in Unaries :
    /\ Len(queue) = 3
    /\ queue[1] = [name |-> kListFeaturesOnReadDoneNOk, reactor |-> r]
    /\ queue[2] = [name |-> kGetFeatureOnDone, reactor |-> u]
    /\ queue[3] = [name |-> kListFeaturesOnDone, reactor |-> r]
    /\ gh[r].okCb = MaxItems /\ gh[r].getReturned = MaxItems

\* The events the client enqueues.
Events == [name : {kGetFeatureOnDone, kListFeaturesOnReadDoneOk,
                   kListFeaturesOnReadDoneNOk, kListFeaturesOnDone},
           reactor : Ids]

\* The step puts one event behind every event already in the queue.
Enqueues == \E e \in Events : queue' = Append(queue, e)

\* The step takes the event at the head of the queue.
Dequeues == queue # <<>> /\ queue' = Tail(queue)

\* C23: events are dispatched in the order they were enqueued, whatever other
\* threads enqueue in between.  Every step that changes the queue either puts
\* one event behind all the events already there, and is not a step of the
\* consumer, or takes the oldest event; no event overtakes an older one; and
\* the handler that runs is the handler of the event taken: GetResponse on its
\* reactor for ReadDoneOk, nothing for ReadDoneNOk, the release of the call's
\* slot for the two OnDone events.
C23_EnqueueOrderDispatched ==
  [][/\ queue' # queue =>
          \/ Enqueues /\ app' = app /\ reactor_map_' = reactor_map_
          \/ Dequeues
     /\ \A j \in 2..Len(queue) :
          \/ Len(queue') >= j /\ queue'[j] = queue[j]
          \/ Len(queue') = Len(queue) - 1 /\ queue'[j - 1] = queue[j]
     /\ Dequeues =>
          LET e == Head(queue) IN
          /\ e.name = kListFeaturesOnReadDoneOk =>
               app'.pc = "GetResponse_204" /\ app'.r = e.reactor
          /\ e.name = kListFeaturesOnReadDoneNOk =>
               UNCHANGED <<reactor_map_, rx, tx, app, gh>>
          /\ e.name = kGetFeatureOnDone =>
               reactor_map_'["GetFeature"] = NoReactor /\ app' = app
          /\ e.name = kListFeaturesOnDone =>
               reactor_map_'["ListFeatures"] = NoReactor /\ app' = app]_vars

\* The item events and the ReadDoneNOk event of a stream were handled, its
\* OnDone event is the next to be dispatched, and an event another call's
\* reaction enqueued later waits behind it.
C23_Witness ==
  \E r \in Streams : \E u \in Unaries :
    /\ queue = <<[name |-> kListFeaturesOnDone, reactor |-> r],
                 [name |-> kGetFeatureOnDone, reactor |-> u]>>
    /\ gh[r].okCb = MaxItems /\ gh[r].getReturned = MaxItems /\ gh[r].nokCb = 1
    /\ app.pc = "idle"

\* A handler is executing: the consumer is inside the GetResponse call of the
\* ReadDoneOk handler (the other handlers are single steps of the consumer).
HandlerRunning == app.pc # "idle"

\* C24: at most one event handler executes at any time.  The consumer takes an
\* event only when no handler is running, takes one event per step, and while
\* a handler runs no event leaves the queue, however many events the
\* transport's reactions enqueue meanwhile.
C24_OneHandlerAtATime ==
  [][/\ Len(queue') < Len(queue) =>
          ~HandlerRunning /\ Len(queue') = Len(queue) - 1
     /\ HandlerRunning => Len(queue') >= Len(queue)
     /\ (HandlerRunning /\ HandlerRunning') => app'.r = app.r]_vars

\* The handler of a ReadDoneOk event is inside GetResponse while the next item
\* event of the same call and the OnDone event of another call wait.
C24_Witness ==
  \E r \in Streams : \E u \in Unaries :
    /\ app.pc = "GetResponse_212" /\ app.r = r
    /\ EventsOf(kListFeaturesOnReadDoneOk, r) # {}
    /\ EventsOf(kGetFeatureOnDone, u) # {}
    /\ Len(queue) = 2

\* The step invokes a callback (ok, nok or done) of reactor r.
CallbackRuns(r) ==
  \/ gh'[r].okCb > gh[r].okCb
  \/ gh'[r].nokCb > gh[r].nokCb
  \/ gh'[r].doneCb > gh[r].doneCb

\* The step is a statement of a reaction (OnReadDone, OnDone) of call r, which
\* a thread of the transport executes.
ReactionStep(r) == tx[r].pc # "idle" /\ tx'[r].pc # tx[r].pc

\* The step is one of the consumer thread: it dispatches an event or executes
\* a statement of the running handler.
HandlerStep == Dequeues \/ (HandlerRunning /\ app' # app)

\* The step releases the slot of an RPC (reactor_.reset() of an OnDone handler).
ReleasesSlot == \E k \in Keys : reactor_map_[k] # NoReactor /\ reactor_map_'[k] = NoReactor

\* C25: handlers run on the consumer thread and never on a transport thread;
\* reactor callbacks run on a transport thread and never on the consumer.  A
\* callback is invoked only by a statement of a reaction of its own call, in a
\* step that is not the consumer's and leaves the consumer where it is; an
\* event is enqueued only by such a step; a step of the consumer executes no
\* statement of any reaction, invokes no callback and enqueues nothing; what
\* the handlers do (taking a response, releasing a slot) happens only in
\* steps of the consumer.
C25_ThreadAffinity ==
  [][/\ \A r \in Ids : CallbackRuns(r) =>
            /\ ReactionStep(r) /\ ~HandlerStep /\ app' = app
            /\ tx[r].pc \in {"OnReadDone_236", "OnReadDone_240", "OnDone_272", "OnDone_113"}
     /\ Len(queue') > Len(queue) => (\E r \in Ids : CallbackRuns(r)) /\ ~HandlerStep
     /\ HandlerStep =>
            /\ \A r \in Ids : ~ReactionStep(r) /\ ~CallbackRuns(r)
            /\ Len(queue') <= Len(queue)
     /\ ReleasesSlot => Dequeues
     /\ (\E r \in Ids : gh'[r].taken > gh[r].taken) => HandlerRunning /\ HandlerStep]_vars

\* The ReadDoneOk handler is inside GetResponse on the consumer while, on the
\* transport, the stream's next OnReadDone is about to invoke the ok callback
\* and the unary call's OnDone is about to invoke the done callback.
C25_Witness ==
  \E r \in Streams : \E u \in Unaries :
    /\ HandlerRunning /\ app.r = r
    /\ tx[r].pc = "OnReadDone_240"
    /\ tx[u].pc = "OnDone_113"

\* The next statement of the reaction of call r that is running.
ReactionStatement(r) ==
  \/ OnReadDone_232(r) \/ OnReadDone_234(r) \/ OnReadDone_236(r)
  \/ OnReadDone_240(r) \/ OnReadDone_255(r) \/ NoHoldBranch(r)
  \/ OnDone_268(r) \/ OnDone_270(r) \/ OnDone_272(r)
  \/ OnDone_109(r) \/ OnDone_111(r) \/ OnDone_113(r)

\* The number of statements a reaction standing at pc has at most before it
\* returns.
StatementsLeft(pc) ==
  CASE pc = "idle" -> 0
    [] pc \in {"OnReadDone_236", "OnReadDone_255", "OnReadDone_260",
               "OnDone_272", "OnDone_113"} -> 1
    [] pc \in {"OnReadDone_240", "OnReadDone_258", "OnDone_270", "OnDone_111"} -> 2
    [] pc \in {"OnReadDone_234", "OnDone_268", "OnDone_109"} -> 3
    [] pc = "OnReadDone_232" -> 4
    [] OTHER -> 5

\* A call of the client that has not terminated.
CallOpen == \E r \in Ids : rx[r].life = "live" /\ ~tx[r].done

\* C26: no transport thread waits for the application thread.  Whatever the
\* consumer is doing, a reaction that is running (OnReadDone, OnDone and the
\* callbacks they invoke) can execute its next statement, and every statement
\* brings it closer to its return, which is at most four statements away; the
\* statements change nothing of the consumer.  While a call has not terminated
\* some thread can take a step.
C26_TransportNeverWaits ==
  /\ [](\A r \in Ids : tx[r].pc # "idle" =>
          /\ ENABLED <<ReactionStatement(r)>>_vars
          /\ StatementsLeft(tx[r].pc) \in 1..4)
  /\ [](CallOpen => ENABLED <<Next>>_vars)
  /\ [][\A r \in Ids : ReactionStep(r) =>
          /\ StatementsLeft(tx'[r].pc) < StatementsLeft(tx[r].pc)
          /\ app' = app /\ Len(queue') >= Len(queue)]_vars

\* The consumer has handled nothing: the unary call completed and its done
\* callback returned, the stream's OnReadDone returned holding the first item,
\* and both events wait in the queue.
C26_Witness ==
  \E r \in Streams : \E u \in Unaries :
    /\ Completed(u) /\ gh[u].doneCb = 1
    /\ tx[r].pc = "idle" /\ gh[r].okCb = 1 /\ tx[r].holds = 1
    /\ gh[r].getReturned = 0 /\ gh[r].taken = 0
    /\ Len(queue) = 2 /\ app.pc = "idle"
    /\ \A x \in Ids : gh[x].handled = NewHistory.handled

\* A stream reactor whose ok callback returns false for every item, or that has
\* no ok callback; the application has taken no item from it.
Refuses(r) ==
  /\ rx[r].life = "live" /\ IsStream(r)
  /\ ~OkCallbackHolds(rx[r].cbs)
  /\ gh[r].taken = 0

\* The transport delivers OnReadDone(ok) to reactor r in this step.
DeliversRead(r, ok) ==
  tx[r].pc = "idle" /\ tx'[r].pc = "OnReadDone_232" /\ tx'[r].ok = ok

EmptyStream(r) ==
  /\ rx[r].life = "live" /\ IsStream(r)
  /\ tx[r].sent = 0 /\ tx[r].fin = "OK"

\* C29: a stream on which the server sends no item completes.  The ok callback
\* is never invoked, no hold is added and no response is ever ready; the read
\* requested at the start completes with OnReadDone(false), whose nok callback
\* is invoked once; OnDone is then delivered, once, with status OK, which the
\* done callback gets and Status() returns; and all this does happen.
C29_EmptyStreamCompletes ==
  /\ [](\A r \in Ids : EmptyStream(r) =>
          /\ gh[r].okCb = 0 /\ gh[r].addHold = 0 /\ tx[r].holds = 0
          /\ ~rx[r].response_ready_ /\ rx[r].response_ = EmptyResponse
          /\ gh[r].nokCb <= 1 /\ gh[r].doneCb <= 1
          /\ gh[r].doneCb = 1 => gh[r].nokCb = 1 /\ tx[r].done
          /\ tx[r].done => tx[r].st = "OK" /\ tx[r].reads = 0 /\ rx[r].read_no_more_
          /\ Completed(r) =>
               /\ gh[r].nokCb = 1 /\ gh[r].doneCb = 1
               /\ rx[r].status_ = "OK")
  /\ (EmptyStream(1) ~> Completed(1))

\* An empty stream completed with OK on a reactor whose ok callback would hold:
\* the nok and the done callback were invoked once each, the ok callback never.
C29_Witness ==
  /\ EmptyStream(1) /\ rx[1].cbs = "hold" /\ Completed(1)
  /\ gh[1].okCb = 0 /\ gh[1].nokCb = 1 /\ gh[1].doneCb = 1
  /\ rx[1].status_ = "OK" /\ gh[1].addHold = 0

\* A stream the server ended with an error; the items delivered before it
\* number tx[r].sent.
ErrorEnded(r) ==
  /\ rx[r].life = "live" /\ IsStream(r)
  /\ tx[r].fin = "INTERNAL"

\* The reaction of r at a statement of OnDone.
InOnDone(r) == tx[r].pc \in {"OnDone_268", "OnDone_270", "OnDone_272"}

\* C30: the server ends a stream with an error after k items.  When the done
\* callback is invoked the ok callback has been invoked for exactly the k
\* items delivered; OnDone, the done callback and, from then on, Status() carry
\* the server's error status; and the items delivered are not lost or
\* retracted: the error and OnDone leave the response the reactor holds, the
\* items the application took and the count of ok callbacks as they were, and
\* an item held when the error arrived is still taken before OnDone.
C30_ErrorAfterItems ==
  /\ [](\A r \in Ids : ErrorEnded(r) =>
          /\ gh[r].okCb <= tx[r].sent
          /\ tx[r].pc = "OnDone_272" =>
               gh[r].okCb = tx[r].sent /\ rx[r].status_ = "INTERNAL" /\ tx[r].st = "INTERNAL"
          /\ tx[r].done => tx[r].st = "INTERNAL"
          /\ gh[r].doneCb > 0 =>
               gh[r].doneCb = 1 /\ gh[r].okCb = tx[r].sent /\ rx[r].status_ = "INTERNAL"
          /\ Completed(r) => gh[r].doneCb = 1
          /\ (tx[r].done /\ OkCallbackHolds(rx[r].cbs)) => gh[r].taken = tx[r].sent)
  /\ [][\A r \in Ids :
          /\ (ErrorEnded(r) /\ ErrorEnded(r)') =>
               /\ gh'[r].okCb >= gh[r].okCb /\ gh'[r].taken >= gh[r].taken
               /\ tx'[r].sent = tx[r].sent
               /\ (InOnDone(r) /\ ReactionStep(r)) =>
                    /\ rx'[r].response_ = rx[r].response_
                    /\ rx'[r].response_ready_ = rx[r].response_ready_
                    /\ app' = app
          /\ (rx[r].life = "live" /\ IsStream(r) /\ tx[r].fin = "none" /\ ErrorEnded(r)') =>
               /\ rx'[r] = rx[r] /\ gh'[r] = gh[r] /\ app' = app
               /\ tx'[r].sent = tx[r].sent /\ tx'[r].holds = tx[r].holds]_vars

\* The server failed the stream after the first of MaxItems items: the ok
\* callback, which declines, got that item, then the done callback got the
\* error, which Status() returns.
C30_Witness ==
  /\ ErrorEnded(1) /\ rx[1].cbs = "nohold" /\ ~tx[1].cancel
  /\ tx[1].sent = 1 /\ gh[1].okCb = 1 /\ rx[1].response_ = 1
  /\ Completed(1) /\ gh[1].doneCb = 1 /\ rx[1].status_ = "INTERNAL"

\* Run has returned to its caller.
RunReturned == app.pc = "Returned"

\* C27: Run in blocking mode does not return before Halt is called, and after
\* Halt is called the loop stops and Run returns; the other calls return
\* without waiting.  Run returns only from between two handlers and only when
\* Halt was called; once Halt was called Run eventually returns, after which
\* nothing is dispatched; the admission check with the start of the call, and
\* Halt itself, can be made and completed in one step of their caller whatever
\* the transport, the queue and the other calls are doing.
C27_RunUntilHalt ==
  /\ [](RunReturned => HaltRequested)
  /\ [][/\ (RunReturned' /\ ~RunReturned) => HaltRequested /\ ~HandlerRunning
        /\ RunReturned => RunReturned' /\ Len(queue') >= Len(queue) /\ app' = app]_vars
  /\ [](\A k \in Keys : (app.pc = "idle" /\ attempts < MaxAttempts) =>
            ENABLED <<CallRpc(k)>>_vars)
  /\ []((~HaltRequested /\ ~RunReturned) => ENABLED <<Halt>>_vars)
  /\ (HaltRequested ~> RunReturned)

\* Halt was called while the ReadDoneOk handler was inside GetResponse with a
\* stream still open; the handler returned, the loop stopped and Run returned,
\* leaving the call's later events in the queue.
C27_Witness ==
  \E r \in Streams :
    /\ RunReturned /\ gh[r].getReturned = 1 /\ gh[r].okCb = 2
    /\ queue # <<>> /\ Head(queue) = HaltEvent /\ Len(queue) >= 2
    /\ rx[r].life = "live"

\* Nothing of reactor r changes in the step.
Untouched(r) == rx'[r] = rx[r] /\ tx'[r] = tx[r] /\ gh'[r] = gh[r]

\* C31: unary reactors started side by side are independent.  Each gets OnDone
\* once, and its done callback once, with the status of its own call, which
\* is also what its Status() returns; each one that was started completes,
\* whatever the others do; and a step of the transport on one reactor, its
\* completion included, changes no field of another reactor.
C31_ReactorsIndependent ==
  /\ [](\A r \in Ids : rx[r].life = "live" =>
          /\ gh[r].doneCb <= 1
          /\ gh[r].doneCb = 1 => tx[r].done /\ rx[r].status_ = tx[r].fin
          /\ tx[r].done => tx[r].st = tx[r].fin
          /\ Completed(r) =>
               /\ gh[r].doneCb = 1 /\ rx[r].status_ = tx[r].fin
               /\ rx[r].response_ready_ => tx[r].fin = "OK")
  /\ [][\A r \in Ids :
          /\ (tx'[r] # tx[r] \/ gh'[r].doneCb # gh[r].doneCb) =>
               \A q \in Ids \ {r} : Untouched(q)
          /\ tx[r].done => tx'[r].done /\ tx'[r].fin = tx[r].fin
          /\ (tx[r].done /\ tx[r].pc = "idle") => rx'[r].status_ = rx[r].status_]_vars
  /\ \A r \in Ids : (rx[r].life = "live") ~> Completed(r)

\* The reactors started side by side have all completed, one with an error
\* between two with OK, each keeping its own status.
C31_Witness ==
  /\ \A r \in Ids : rx[r].life = "live" /\ Completed(r) /\ gh[r].doneCb = 1
  /\ rx[1].status_ = "OK" /\ rx[2].status_ = "INTERNAL" /\ rx[3].status_ = "OK"
  /\ rx[1].response_ready_ /\ ~rx[2].response_ready_

\* What Status() (line 99: `return status_;`) can return to an application
\* thread that calls it now.  status_ is a plain grpc::Status; while OnDone
\* stands before its assignment at line 111 the read is not ordered with that
\* write, and may return anything.
StatusReturns(r) ==
  IF tx[r].pc = "OnDone_111" THEN StatusCodes ELSE {rx[r].status_}

\* C32 (as stated): in the unary OnDone the status is stored before
\* response_ready_ becomes true.  Whenever response_ready_ is true the
\* assignment of status_ has been executed and Status() returns the delivered
\* status.
C32_StatusBeforeReady ==
  [](\A r \in Ids :
       (rx[r].life = "live" /\ IsUnary(r) /\ CallbackSet(rx[r].cbs) /\ rx[r].response_ready_) =>
          /\ tx[r].pc \notin {"OnDone_109", "OnDone_111"}
          /\ StatusReturns(r) = {tx[r].st})

\* C33 (as stated): GetResponse resumes a stream only when it is held.  The
\* RemoveHold calls of a reactor never outnumber its AddHold calls, and the
\* transport never counts fewer than zero holds.
C33_RemoveHoldOnlyWhenHeld ==
  \A r \in Ids :
    /\ gh[r].removeHold <= gh[r].addHold
    /\ tx[r].holds >= 0

\* ------------------------------------------------ events and registry slots
\* Each handler captures the slot of one RPC key:
\* [&reactor_ = reactor_map_[routeguide::GetFeature::RpcKey]] and likewise.
RpcKeyOf(name) == IF name = kGetFeatureOnDone THEN "GetFeature" ELSE "ListFeatures"

\* assert(reactor == reactor_.get()) for the event e.
SlotHolds(e) == reactor_map_[RpcKeyOf(e.name)] = e.reactor

\* C34: every event that is dispatched, and every event still queued, carries
\* the live reactor stored in the registry slot of its key, so the handlers'
\* assertion reactor == reactor_.get() holds; while a handler runs GetResponse
\* its reactor is still the one in the slot; and no event of a destroyed
\* reactor is queued once a later reactor was admitted under the same key.
C34_EventCarriesSlotReactor ==
  /\ \A i \in 1..Len(queue) :
       /\ queue[i].reactor \in Ids
       /\ SlotHolds(queue[i])
       /\ rx[queue[i].reactor].life = "live"
       /\ rx[queue[i].reactor].key = RpcKeyOf(queue[i].name)
  /\ app.pc # "idle" => reactor_map_["ListFeatures"] = app.r /\ rx[app.r].life = "live"
  /\ \A d \in Ids : rx[d].life = "destroyed" =>
       \A i \in 1..Len(queue) : queue[i].reactor # d

\* A second reactor was admitted under the key of a destroyed one and its event
\* is next to be dispatched.
C34_Witness ==
  /\ queue # <<>>
  /\ \E d \in Ids : /\ rx[d].life = "destroyed"
                    /\ d < NextEvent.reactor
                    /\ rx[d].key = RpcKeyOf(NextEvent.name)


\* ------------------------------------------------- destruction of a reactor
\* The OnDone event of reactor r: the event its done callback enqueues.
OnDoneEventOf(r) == IF IsUnary(r) THEN kGetFeatureOnDone ELSE kListFeaturesOnDone

\* reactor_.reset() destroys reactor r in this step.
Destroys(r) == rx[r].life = "live" /\ rx'[r].life = "destroyed"

OtherKey(k) == IF k = "GetFeature" THEN "ListFeatures" ELSE "GetFeature"

\* The call of key k is in flight: its reactor is in the slot and not done.
InFlight(k) == reactor_map_[k] # NoReactor /\ ~tx[reactor_map_[k]].done

\* Nothing of the slot of key k, or of the reactor in it, changes in the step.
SlotUntouched(k) ==
  /\ reactor_map_'[k] = reactor_map_[k]
  /\ reactor_map_[k] # NoReactor => Untouched(reactor_map_[k])

\* C36: admission is decided per key.  An attempt is rejected exactly when the
\* slot of its own key is occupied, whatever the slot of the other key holds,
\* and whether admitted or rejected it leaves the other key's slot and reactor
\* alone; the step that releases the slot of one key leaves the slot and the
\* reactor of the other key alone.
C36_AdmissionPerKey ==
  [][/\ attempts' = attempts + 1 =>
          LET i == attempts'
              k == outcome'[i].key
          IN  /\ outcome'[i].res = "rejected" <=> reactor_map_[k] # NoReactor
              /\ outcome'[i].res = "admitted" <=> reactor_map_[k] = NoReactor
              /\ SlotUntouched(OtherKey(k))
     /\ \A k \in Keys :
          (reactor_map_[k] # NoReactor /\ reactor_map_'[k] = NoReactor) =>
             SlotUntouched(OtherKey(k))]_vars

\* ListFeatures and GetFeature are in flight together, the later one admitted
\* while the earlier one was live, after a call of the later one's key has
\* completed and released its slot.
C36_Witness ==
  /\ \A k \in Keys : InFlight(k)
  /\ \E d \in Ids : rx[d].life = "destroyed"

\* ------------------------------------------------------ release of the slot
\* Reactor r is the one admitted into the slot of key k.
Admits(k, r) == reactor_map_[k] = r

\* C37: every admitted call eventually releases its slot, when the transport
\* completes every read and call and the consumer keeps dispatching; the ok
\* callback of the client holds the stream at every item.  The reactor that
\* was in the slot is destroyed by then, and the slot is free for a new call.
C37_AdmittedEventuallyReleased ==
  /\ \A k \in Keys, r \in Ids :
       Admits(k, r) ~> (~Admits(k, r) /\ rx[r].life = "destroyed")
  /\ \A k \in Keys : []<>(reactor_map_[k] = NoReactor)

\* A stream that was held at every one of its items, the last one taken, has
\* completed and its OnDone event is the next to be dispatched, while a call
\* admitted under the other key has already released its slot.
C37_Witness ==
  /\ queue # <<>> /\ NextEvent.name = kListFeaturesOnDone
  /\ LET r == NextEvent.reactor
     IN  /\ Admits("ListFeatures", r)
         /\ tx[r].sent = MaxItems
         /\ gh[r].addHold = MaxItems /\ gh[r].removeHold = MaxItems
  /\ reactor_map_["GetFeature"] = NoReactor
  /\ \E d \in Ids : rx[d].life = "destroyed" /\ IsUnary(d)

\* ------------------------------------------------------------------- main
\* main has started ListFeatures and then GetFeature, both calls have completed
\* and their reactors were destroyed, both slots are released and no event is
\* left; the consumer is in EventLoop::Run().
MainCallsDone ==
  /\ attempts = 2
  /\ outcome[1].key = "ListFeatures" /\ outcome[2].key = "GetFeature"
  /\ rx[1].life = "destroyed" /\ rx[2].life = "destroyed"
  /\ \A k \in Keys : reactor_map_[k] = NoReactor
  /\ queue = <<>> /\ app.pc = "idle"

\* C38 (as stated): the application terminates.  Once both calls of main have
\* completed and released their slots, Run() returns and main reaches its end,
\* although nothing has called Halt().
C38_MainTerminates == (MainCallsDone /\ ~HaltRequested) ~> RunReturned

\* ---------------------------------------------------- RouteChat, two servers
\* One RouteChat stream served by the callback server (the Chatter reactor) and
\* the same notes served by the sync server.  The state of this part is kept in
\* the variables of the module:
\*   queue  the notes the client writes on the stream, in order
\*   rx     the Chatter reactor: note_, to_send_notes_, notes_iterator_ (an
\*          index, Len + 1 is end()), the callback server's received_notes_,
\*          the number of notes read, and where the reactor is
\*   app    the sync server's RouteChat: its received_notes_, the number of
\*          notes read, and where the loop is
\*   tx     what each server wrote on the stream: one sequence of notes per
\*          note it read
Points == {[latitude |-> 1, longitude |-> 1], [latitude |-> 1, longitude |-> 2],
           [latitude |-> 2, longitude |-> 1]}
Messages == {"", "a", "b"}
Notes == [location : Points, message : Messages]
NoteSeqs == UNION {[1..n -> Notes] : n \in 0..MaxNotes}
\* A default-constructed RouteNote.
NoNote == [location |-> [latitude |-> 0, longitude |-> 0], message |-> ""]

\* proto_utils::AreEqual
AreEqual(point1, point2) ==
  point1.latitude = point2.latitude /\ point1.longitude = point2.longitude

\* The notes of s at the location of note, in the order of s.
SameLocation(s, note) == SelectSeq(s, LAMBDA n : AreEqual(n.location, note.location))

InitChat ==
  /\ queue \in NoteSeqs
  /\ rx = [pc |-> "reading", nread |-> 0, note_ |-> NoNote, received_notes_ |-> <<>>,
           to_send_notes_ |-> <<>>, notes_iterator_ |-> 1]
  /\ app = [pc |-> "reading", nread |-> 0, received_notes_ |-> <<>>]
  /\ tx = [callback |-> <<>>, sync |-> <<>>]
  /\ reactor_map_ = [k \in Keys |-> NoReactor]
  /\ attempts = 0
  /\ outcome = [i \in Ids |-> NoAttempt]
  /\ gh = [r \in Ids |-> NewHistory]

\* The note w is written in reply to the note read last.
Written(replies, w) ==
  [replies EXCEPT ![Len(replies)] = Append(@, w)]

\* Chatter::NextWrite on the reactor c, replies being what was written so far:
\* the next note of to_send_notes_ is written, or, at end(), note_ is appended
\* to received_notes_ and the next read is started.
NextWrite(c, replies) ==
  IF c.notes_iterator_ # Len(c.to_send_notes_) + 1
  THEN /\ tx' = [tx EXCEPT !.callback = Written(replies, c.to_send_notes_[c.notes_iterator_])]
       /\ rx' = [c EXCEPT !.notes_iterator_ = @ + 1, !.pc = "writing"]
  ELSE /\ tx' = [tx EXCEPT !.callback = replies]
       /\ rx' = [c EXCEPT !.received_notes_ = Append(@, c.note_), !.pc = "reading"]

\* Chatter::OnReadDone(ok): ok is false once the client has written all its
\* notes.  A note with an empty message is written back and ends the stream
\* (StartWriteAndFinish); for any other note the notes received before at its
\* location are appended to to_send_notes_, the iterator is set to begin() and
\* NextWrite is called.
Chatter_OnReadDone ==
  /\ rx.pc = "reading"
  /\ LET ok == rx.nread < Len(queue)
         note == queue[rx.nread + 1]
     IN  IF ok
         THEN IF note.message = ""
              THEN /\ rx' = [rx EXCEPT !.note_ = note, !.nread = @ + 1, !.pc = "finished"]
                   /\ tx' = [tx EXCEPT !.callback = Append(@, <<note>>)]
              ELSE LET c == [rx EXCEPT !.note_ = note, !.nread = @ + 1,
                                       !.to_send_notes_ = @ \o SameLocation(rx.received_notes_, note),
                                       !.notes_iterator_ = 1]
                   IN  NextWrite(c, Append(tx.callback, <<>>))
         ELSE /\ rx' = [rx EXCEPT !.pc = "finished"]
              /\ tx' = tx
  /\ UNCHANGED <<reactor_map_, queue, app, attempts, outcome, gh>>

\* Chatter::OnWriteDone: NextWrite().
Chatter_OnWriteDone ==
  /\ rx.pc = "writing"
  /\ NextWrite(rx, tx.callback)
  /\ UNCHANGED <<reactor_map_, queue, app, attempts, outcome, gh>>

\* Chatter::OnDone: delete this.
Chatter_OnDone ==
  /\ rx.pc = "finished"
  /\ rx' = [rx EXCEPT !.pc = "deleted"]
  /\ UNCHANGED <<reactor_map_, tx, queue, app, attempts, outcome, gh>>

\* One turn of while (stream->Read(&note)) of the sync server: every note
\* received before at the location of note is written, then note is appended.
RouteChat_Read ==
  /\ app.pc = "reading" /\ app.nread < Len(queue)
  /\ LET note == queue[app.nread + 1]
     IN  /\ tx' = [tx EXCEPT !.sync = Append(@, SameLocation(app.received_notes_, note))]
         /\ app' = [app EXCEPT !.nread = @ + 1, !.received_notes_ = Append(@, note)]
  /\ UNCHANGED <<reactor_map_, rx, queue, attempts, outcome, gh>>

\* stream->Read returns false: return Status::OK.
RouteChat_Return ==
  /\ app.pc = "reading" /\ app.nread = Len(queue)
  /\ app' = [app EXCEPT !.pc = "returned"]
  /\ UNCHANGED <<reactor_map_, rx, tx, queue, attempts, outcome, gh>>

NextChat ==
  \/ Chatter_OnReadDone \/ Chatter_OnWriteDone \/ Chatter_OnDone
  \/ RouteChat_Read \/ RouteChat_Return

SpecChat == InitChat /\ [][NextChat]_vars

\* The reply the claim expects to the i-th note of notes: the notes received
\* before it at its location, each once, in the order received.
ExpectedReply(notes, i) == SameLocation(SubSeq(notes, 1, i - 1), notes[i])

\* Both servers have served the whole stream.
ChatServed == rx.pc \in {"finished", "deleted"} /\ app.pc = "returned"

\* C39 (as stated): the callback server and the sync server implement the same
\* RouteChat.  Once both have served the notes of one stream, each has replied
\* to every note, and to the i-th note with exactly the notes received before
\* it at the same location, each once, in the order received.
C39_SameRouteChat ==
  ChatServed =>
    /\ tx.callback = tx.sync
    /\ Len(tx.sync) = Len(queue)
    /\ \A i \in 1..Len(queue) : tx.sync[i] = ExpectedReply(queue, i)

============================================================================
